---------------------------- MODULE Spec2Model ----------------------------
(***************************************************************************)
(* Model of go-dmr: the Home Brew frame codec (homebrew.go), the link      *)
(* session with its login, receive and dispatch goroutines (homebrew.go), *)
(* the embedded-signalling parser (emb.go) and the CRC-9 update (crc.go).  *)
(*                                                                         *)
(* Byte slices are sequences of numbers 0..255; Go offset k is TLA+        *)
(* position k+1.                                                           *)
(***************************************************************************)
EXTENDS Integers, Sequences, FiniteSets, TLC

VARIABLES
    \* ---- frame codec harness
    frame,        \* the Frame handed to Bytes()
    wire,         \* the result of frame.Bytes(), <<>> before the call
    raw,          \* the buffer handed to ParseFrame
    parsed,       \* the (frame, err) pair ParseFrame returned, None before the call
    acc,          \* the results of the four flag accessors, None before the call
    fpc,          \* position of the codec harness
    \* ---- EMB parser harness
    bits,         \* the bit.Bits handed to ParseEMB
    verdict,      \* what quadres_16_7.Check answers for these bits
    emb,          \* the (EMB, err) pair ParseEMB returned, None before the call
    epc,          \* position of the EMB harness
    \* ---- CRC-9 harness
    crc0,         \* the register *crc before the call of crc9
    crc,          \* the register *crc
    cbyte,        \* the byte b handed to crc9
    cbits,        \* the argument bits handed to crc9
    cpc,          \* position of the CRC harness
    \* ---- link session
    status,       \* l.master.status
    secret,       \* l.master.secret
    previous,     \* login(): local variable previous
    p,            \* login(): local variable p
    lpc,          \* login(): position of the goroutine
    sent,         \* datagrams written to the socket, in order
    outstanding,  \* l.master.keepalive.outstanding
    kasent,       \* l.master.keepalive.sent
    socket,       \* datagrams waiting in the UDP socket
    queue,        \* the packet Run() is blocked sending on the channel, <<>> if none
    cur,          \* parse(): the packet p received from the channel, <<>> if none
    dpc,          \* parse(): position of the goroutine
    delivered,    \* frames handed to l.stream, in order
    received,     \* history: datagrams ReadFromUDP returned to Run(), in order
    handled,      \* history: datagrams parse() has processed, in order
    stream,       \* whether l.stream is set
    transport,    \* "reliable" if WriteToUDP never fails, "lossy" if it may
    script,       \* the scripted master's replies, None when datagrams are arbitrary
    seen,         \* how many sent datagrams the scripted master has handled
    injected      \* how many arbitrary datagrams have arrived

frameVars == <<frame, wire, raw, parsed, acc, fpc>>
embVars   == <<bits, verdict, emb, epc>>
crcVars   == <<crc0, crc, cbyte, cbits, cpc>>
loginVars == <<previous, p, lpc, sent, outstanding, kasent>>
recvVars  == <<socket, queue, injected, received>>
parseVars == <<status, secret, cur, dpc, delivered, handled>>
envVars   == <<stream, transport, script, seen>>
linkVars  == <<loginVars, recvVars, parseVars, envVars>>
vars      == <<frameVars, embVars, crcVars, linkVars>>

\* nil, for an error or a string
Nil == "nil"

\* a pointer is <<>> when nil and <<v>> when it points to v
None == <<>>
Some(v) == <<v>>

-----------------------------------------------------------------------------
(* Bounds of the model *)

\* longest buffer handed to ParseFrame
MaxRawLen == 55
\* longest bit sequence handed to ParseEMB
MaxBitsLen == 17
\* arbitrary datagrams arriving in one run
MaxInbound == 3
\* keepalive cycles in one run
MaxPings == 2

-----------------------------------------------------------------------------
(* Integer arithmetic of the Go code *)

RECURSIVE BitAnd(_, _)
\* x & y
BitAnd(x, y) ==
    IF x = 0 \/ y = 0 THEN 0
    ELSE (IF x % 2 = 1 /\ y % 2 = 1 THEN 1 ELSE 0) + 2 * BitAnd(x \div 2, y \div 2)

RECURSIVE BitOr(_, _)
\* x | y
BitOr(x, y) ==
    IF x = 0 THEN y
    ELSE IF y = 0 THEN x
    ELSE (IF x % 2 = 1 \/ y % 2 = 1 THEN 1 ELSE 0) + 2 * BitOr(x \div 2, y \div 2)

RECURSIVE BitXor(_, _)
\* x ^ y
BitXor(x, y) ==
    IF x = 0 THEN y
    ELSE IF y = 0 THEN x
    ELSE (IF x % 2 # y % 2 THEN 1 ELSE 0) + 2 * BitXor(x \div 2, y \div 2)

\* x >> n, for a byte or an int
Shr(x, n) == x \div (2 ^ n)

\* A uint32 is the tuple of its four bytes, most significant first.
\* byte(x >> n), n a multiple of 8
ByteShr32(x, n) == x[4 - (n \div 8)]

\* uint32(b) << n, b a byte and n a multiple of 8
Shl32(b, n) == [i \in 1..4 |-> IF i = 4 - (n \div 8) THEN b ELSE 0]

\* x | y on uint32
Or32(x, y) == [i \in 1..4 |-> BitOr(x[i], y[i])]

\* uint8(x) << n
Shl8(x, n) == (x * (2 ^ n)) % 256

\* copy(dst[lo:hi], src): copies min(hi-lo, len(src)) elements
Copy(dst, lo, hi, src) ==
    [i \in 1..Len(dst) |->
        IF i - 1 >= lo /\ i - 1 < hi /\ i - lo <= Len(src)
        THEN src[i - lo] ELSE dst[i]]

\* data[lo:hi]
Slice(data, lo, hi) == SubSeq(data, lo + 1, hi)

\* binary.BigEndian.PutUint32(b[off:off+4], v)
PutUint32(b, off, v) ==
    [i \in 1..Len(b) |->
        IF i - 1 = off THEN ByteShr32(v, 24)
        ELSE IF i - 1 = off + 1 THEN ByteShr32(v, 16)
        ELSE IF i - 1 = off + 2 THEN ByteShr32(v, 8)
        ELSE IF i - 1 = off + 3 THEN ByteShr32(v, 0)
        ELSE b[i]]

\* binary.BigEndian.Uint32(data[off:off+4])
Uint32(data, off) ==
    Or32(Or32(Shl32(data[off + 1], 24), Shl32(data[off + 2], 16)),
         Or32(Shl32(data[off + 3], 8), Shl32(data[off + 4], 0)))

\* make([]byte, n)
Make(n) == [i \in 1..n |-> 0]

-----------------------------------------------------------------------------
(* Frame codec *)

FrameSize == 53
PayloadSize == 33

\* func (f *Frame) Bytes() []byte
Bytes(f) ==
    LET b0 == Make(FrameSize)
        b1 == Copy(b0, 0, 4, f.Signature)
        b2 == [b1 EXCEPT ![5] = f.Sequence,
                         ![6] = ByteShr32(f.SrcID, 16),
                         ![7] = ByteShr32(f.SrcID, 8),
                         ![8] = ByteShr32(f.SrcID, 0),
                         ![9] = ByteShr32(f.DstID, 16),
                         ![10] = ByteShr32(f.DstID, 8),
                         ![11] = ByteShr32(f.DstID, 0)]
        b3 == PutUint32(b2, 11, f.RepeaterID)
        b4 == [b3 EXCEPT ![16] = f.Flags]
        b5 == PutUint32(b4, 16, f.StreamID)
    IN  Copy(b5, 21, FrameSize, f.DMR)

\* ParseFrame accepting any buffer of at least 53 bytes
ParseFrameAtLeast(data) ==
    IF Len(data) < FrameSize
    THEN [frame |-> None, err |-> "invalid packet length"]
    ELSE [frame |-> Some(
            [Signature  |-> Copy(Make(4), 0, 4, Slice(data, 0, 4)),
             Sequence   |-> data[5],
             SrcID      |-> Or32(Or32(Shl32(data[6], 16), Shl32(data[7], 8)),
                                  Shl32(data[8], 0)),
             DstID      |-> Or32(Or32(Shl32(data[9], 16), Shl32(data[10], 8)),
                                  Shl32(data[11], 0)),
             RepeaterID |-> Uint32(data, 11),
             Flags      |-> data[16],
             StreamID   |-> Uint32(data, 16),
             DMR        |-> Copy(Make(PayloadSize), 0, PayloadSize,
                                 Slice(data, 20, Len(data)))]),
          err |-> Nil]

\* func ParseFrame(data []byte) (*Frame, error)
ParseFrame(data) ==
    IF Len(data) # FrameSize
    THEN [frame |-> None, err |-> "invalid packet length"]
    ELSE [frame |-> Some(
            [Signature  |-> Copy(Make(4), 0, 4, Slice(data, 0, 4)),
             Sequence   |-> data[5],
             SrcID      |-> Or32(Or32(Shl32(data[6], 16), Shl32(data[7], 8)),
                                  Shl32(data[8], 0)),
             DstID      |-> Or32(Or32(Shl32(data[9], 16), Shl32(data[10], 8)),
                                  Shl32(data[11], 0)),
             RepeaterID |-> Uint32(data, 11),
             Flags      |-> data[16],
             StreamID   |-> Uint32(data, 16),
             DMR        |-> Copy(Make(PayloadSize), 0, PayloadSize,
                                 Slice(data, 20, Len(data)))]),
          err |-> Nil]

\* CallType reading bit 0 instead of bit 1
CallTypeBit0(f) == BitAnd(f.Flags, 1)

\* func (f *Frame) CallType() CallType
CallType(f) == BitAnd(Shr(f.Flags, 1), 1)

\* func (f *Frame) DataType() byte
DataType(f) == Shr(f.Flags, 4)

\* func (f *Frame) FrameType() FrameType
FrameType(f) == BitAnd(Shr(f.Flags, 2), 3)

\* func (f *Frame) Slot() int
Slot(f) == BitAnd(f.Flags, 1) + 1


-----------------------------------------------------------------------------
(* Embedded signalling *)

\* EMBBits: the width of the EMB field
EMBBits == 16

\* ParseEMB without the test of the PI bit
ParseEMBNoPI(b, check) ==
    IF Len(b) # EMBBits
    THEN [emb |-> None, err |-> "dmr/emb: expected 16 bits"]
    ELSE IF ~check
    THEN [emb |-> None, err |-> "dmr/emb: checksum error"]
    ELSE [emb |-> Some([ColorCode |-> BitOr(BitOr(BitOr(Shl8(b[1], 3), Shl8(b[2], 2)),
                                             Shl8(b[3], 1)), b[4]),
                   LCSS      |-> BitOr(Shl8(b[6], 1), b[7])]),
          err |-> Nil]

\* func ParseEMB(bits bit.Bits) (*EMB, error); check is the answer of
\* quadres_16_7.Check(bits), asked only once the length is right
ParseEMB(b, check) ==
    IF Len(b) # EMBBits
    THEN [emb |-> None, err |-> "dmr/emb: expected 16 bits"]
    ELSE IF ~check
    THEN [emb |-> None, err |-> "dmr/emb: checksum error"]
    ELSE IF b[5] # 0
    THEN [emb |-> None, err |-> "dmr/emb: pi is not 0"]
    ELSE [emb |-> Some([ColorCode |-> BitOr(BitOr(BitOr(Shl8(b[1], 3), Shl8(b[2], 2)),
                                             Shl8(b[3], 1)), b[4]),
                   LCSS      |-> BitOr(Shl8(b[6], 1), b[7])]),
          err |-> Nil]

-----------------------------------------------------------------------------
(* CRC-9 *)

\* the generator of G(x) = x^9+x^6+x^4+x^3+1 (0x0059)
CRC9Poly == 89

\* the nine bits of the shift register (0x01ff)
CRC9Mask == 511

\* the top bit of the shift register (0x0100)
CRC9Top == 256

\* uint16(x)
Uint16(x) == x % 65536

\* crc9: var v uint8 = 0x80; for i := 0; i < 8-bits; i++ { v >>= 1 }
Crc9Mask(n) == IF n >= 8 THEN 128 ELSE Shr(128, 8 - n)

\* crc9: the loop for i := 0; i < 8; i++, from iteration i on
RECURSIVE Crc9Loop(_, _, _, _)
Crc9Loop(c, bb, v, i) ==
    IF i >= 8 THEN c
    ELSE LET xor == BitAnd(c, CRC9Top) > 0
             c1  == BitAnd(Uint16(c * 2), CRC9Mask)
             c2  == IF BitAnd(bb, v) > 0 THEN Uint16(c1 + 1) ELSE c1
             c3  == IF xor THEN BitXor(c2, CRC9Poly) ELSE c2
         IN  Crc9Loop(c3, bb, Shr(v, 1), i + 1)

\* crc9 with v left at 0x80 whatever bits is
crc9Top(c, bb, n) == Crc9Loop(c, bb, 128, 0)

\* crc9(crc, b, bits): the value of *crc after the call
crc9(c, bb, n) == Crc9Loop(c, bb, Crc9Mask(n), 0)

-----------------------------------------------------------------------------
(* Link session: protocol constants and packets *)

\* authStatus
authNone  == "authNone"
authBegin == "authBegin"
authDone  == "authDone"
authFail  == "authFail"

\* "DMRD"
DMRData == <<68, 77, 82, 68>>
\* "MSTNAK"
MasterNAK == <<77, 83, 84, 78, 65, 75>>
\* "MSTACK"
MasterACK == <<77, 83, 84, 65, 67, 75>>
\* "RPTL"
RepeaterLogin == <<82, 80, 84, 76>>
\* "RPTK"
RepeaterKey == <<82, 80, 84, 75>>
\* "PING"
MasterPing == <<80, 73, 78, 71>>
\* "RPTC", the first bytes of RepeaterConfiguration.String()
ConfigSignature == <<82, 80, 84, 67>>

\* the Network the link was built from
network == [LocalID |-> 2042001, AuthKey |-> <<115, 51, 99, 114, 51, 116>>]

\* one digit of fmt.Sprintf("%x")
HexDigit(d) == IF d < 10 THEN 48 + d ELSE 97 + (d - 10)

\* fmt.Sprintf("%08x", n)
Hex8(n) == [i \in 1..8 |-> HexDigit((n \div (16 ^ (8 - i))) % 16)]

\* New(): link.local.id
LocalID == Hex8(network.LocalID)

\* whether hex.DecodeString(string(s)) returns an error
HexDecodeErr(s) ==
    \/ Len(s) % 2 = 1
    \/ \E i \in 1..Len(s) : s[i] \notin ((48..57) \cup (97..102) \cup (65..70))

\* bytes.Equal(data[:n], sig)
HasPrefix(data, sig) == Len(data) >= Len(sig) /\ Slice(data, 0, Len(sig)) = sig

\* login(): the packets written to the master
LoginPacket == [sig |-> RepeaterLogin, id |-> LocalID, digestOf |-> <<>>]
KeyPacket(sec) == [sig |-> RepeaterKey, id |-> LocalID,
                   digestOf |-> sec \o network.AuthKey]
ConfigPacket == [sig |-> ConfigSignature, id |-> <<>>, digestOf |-> <<>>]
PingPacket == [sig |-> MasterPing, id |-> LocalID, digestOf |-> <<>>]

-----------------------------------------------------------------------------
(* Link session: parse(), one packet *)

\* what parse() does with one packet: the new status and secret, whether the
\* goroutine returns, and the frame handed to l.stream (None if none)
Outcome(st, sec, exit, fr) == [status |-> st, secret |-> sec, exit |-> exit, frame |-> fr]

\* parse(), case authNone, with the NAK case leaving the status as it is
ParseAuthNoneNakIgnored(data, sec) ==
    IF HasPrefix(data, DMRData) THEN Outcome(authNone, sec, TRUE, None)
    ELSE IF Len(data) < 14 THEN Outcome(authNone, sec, TRUE, None)
    ELSE IF HexDecodeErr(Slice(data, 6, 14)) THEN Outcome(authFail, sec, FALSE, None)
    ELSE IF Slice(data, 0, 6) = MasterNAK THEN Outcome(authNone, sec, FALSE, None)
    ELSE IF Slice(data, 0, 6) = MasterACK
    THEN Outcome(authBegin, Slice(data, 14, Len(data)), FALSE, None)
    ELSE Outcome(authFail, sec, FALSE, None)

\* parse(), case authNone
ParseAuthNone(data, sec) ==
    IF HasPrefix(data, DMRData) THEN Outcome(authNone, sec, TRUE, None)
    ELSE IF Len(data) < 14 THEN Outcome(authNone, sec, TRUE, None)
    ELSE IF HexDecodeErr(Slice(data, 6, 14)) THEN Outcome(authFail, sec, FALSE, None)
    ELSE IF Slice(data, 0, 6) = MasterNAK THEN Outcome(authFail, sec, FALSE, None)
    ELSE IF Slice(data, 0, 6) = MasterACK
    THEN Outcome(authBegin, Slice(data, 14, Len(data)), FALSE, None)
    ELSE Outcome(authFail, sec, FALSE, None)

\* parse(), case authBegin, with a data frame handed to the stream handler
ParseAuthBeginDelivers(data, sec) ==
    IF HasPrefix(data, DMRData)
    THEN LET r == ParseFrame(data)
         IN  IF r.err # Nil THEN Outcome(authBegin, sec, TRUE, None)
             ELSE Outcome(authBegin, sec, FALSE, r.frame)
    ELSE IF Len(data) < 14 THEN Outcome(authFail, sec, FALSE, None)
    ELSE IF HexDecodeErr(Slice(data, 6, 14)) THEN Outcome(authFail, sec, FALSE, None)
    ELSE IF Slice(data, 0, 6) = MasterNAK THEN Outcome(authFail, sec, FALSE, None)
    ELSE IF Slice(data, 0, 6) = MasterACK THEN Outcome(authDone, sec, FALSE, None)
    ELSE Outcome(authFail, sec, FALSE, None)

\* parse(), case authBegin
ParseAuthBegin(data, sec) ==
    IF HasPrefix(data, DMRData) THEN Outcome(authBegin, sec, TRUE, None)
    ELSE IF Len(data) < 14 THEN Outcome(authFail, sec, FALSE, None)
    ELSE IF HexDecodeErr(Slice(data, 6, 14)) THEN Outcome(authFail, sec, FALSE, None)
    ELSE IF Slice(data, 0, 6) = MasterNAK THEN Outcome(authFail, sec, FALSE, None)
    ELSE IF Slice(data, 0, 6) = MasterACK THEN Outcome(authDone, sec, FALSE, None)
    ELSE Outcome(authFail, sec, FALSE, None)

\* parse(), case authDone, with a NAK from the master failing the session
ParseAuthDoneNakFails(data, sec, hasStream) ==
    IF HasPrefix(data, DMRData)
    THEN IF ~hasStream THEN Outcome(authDone, sec, TRUE, None)
         ELSE LET r == ParseFrame(data)
              IN  IF r.err # Nil THEN Outcome(authDone, sec, TRUE, None)
                  ELSE Outcome(authDone, sec, FALSE, r.frame)
    ELSE IF HasPrefix(data, MasterNAK) THEN Outcome(authFail, sec, FALSE, None)
    ELSE Outcome(authDone, sec, FALSE, None)

\* parse(), case authDone
ParseAuthDone(data, sec, hasStream) ==
    IF HasPrefix(data, DMRData)
    THEN IF ~hasStream THEN Outcome(authDone, sec, TRUE, None)
         ELSE LET r == ParseFrame(data)
              IN  IF r.err # Nil THEN Outcome(authDone, sec, TRUE, None)
                  ELSE Outcome(authDone, sec, FALSE, r.frame)
    ELSE Outcome(authDone, sec, FALSE, None)

\* parse(): the body of the loop for one packet of at least 4 bytes
ParsePacket(st, data, sec, hasStream) ==
    CASE st = authNone  -> ParseAuthNone(data, sec)
      [] st = authBegin -> ParseAuthBegin(data, sec)
      [] st = authDone  -> ParseAuthDone(data, sec, hasStream)
      [] OTHER          -> Outcome(st, sec, FALSE, None)

-----------------------------------------------------------------------------
(* Inputs *)

\* "deadbeef"
Salt == <<100, 101, 97, 100, 98, 101, 101, 102>>
\* the master's ID as the 8 hex characters it echoes
MasterIDHex == Hex8(2042)

AckSalt   == MasterACK \o MasterIDHex \o Salt
Ack       == MasterACK \o MasterIDHex
Nak       == MasterNAK \o MasterIDHex
AckBadHex == MasterACK \o <<122, 122, 122, 122, 122, 122, 122, 122>>
Unknown   == <<77, 83, 84, 88, 88, 88>> \o MasterIDHex
Short10   == Slice(Ack, 0, 10)
Tiny      == <<77, 83, 84>>
GoodFrame == DMRData \o [i \in 1..(FrameSize - 4) |-> (i * 5) % 256]
BadFrame  == DMRData \o [i \in 1..16 |-> i]

\* the datagrams that may arrive from the network
Datagrams == {AckSalt, Ack, Nak, AckBadHex, Unknown, Short10, Tiny, GoodFrame, BadFrame}

\* what a scripted master answers to the login request, to the key exchange,
\* and what it streams once it has the configuration
Scripts ==
    [login : {AckSalt, Nak}, key : {Ack, Nak},
     stream : {<<>>, <<GoodFrame>>, <<BadFrame, GoodFrame>>}]

\* the frames handed to Bytes()
FrameSamples ==
    {[Signature |-> DMRData, Sequence |-> 7, SrcID |-> <<0, 18, 52, 86>>,
      DstID |-> <<0, 0, 0, 9>>, RepeaterID |-> <<0, 31, 40, 145>>, Flags |-> fl,
      StreamID |-> <<222, 173, 190, 239>>,
      DMR |-> [i \in 1..PayloadSize |-> i]] : fl \in 0..255}
    \cup
    [Signature : {DMRData, <<0, 255, 1, 2>>}, Sequence : {0, 255},
     SrcID : {<<0, 0, 0, 0>>, <<0, 18, 52, 86>>, <<0, 255, 255, 255>>, <<1, 171, 205, 239>>},
     DstID : {<<0, 0, 0, 1>>, <<0, 171, 205, 239>>, <<255, 255, 255, 255>>},
     RepeaterID : {<<0, 0, 0, 0>>, <<222, 173, 190, 239>>, <<255, 255, 255, 255>>},
     Flags : {19}, StreamID : {<<0, 0, 0, 1>>, <<255, 255, 255, 255>>},
     DMR : {[i \in 1..PayloadSize |-> IF i = k THEN v ELSE 0] :
                k \in {1, 2, PayloadSize}, v \in {0, 1, 255}}
             \cup {[i \in 1..PayloadSize |-> 255 - i]}]

\* the buffers handed to ParseFrame directly
RawSamples ==
    {[i \in 1..n |-> (i * 7 + s) % 256] : n \in 0..MaxRawLen, s \in {0, 101}}

\* the bit sequences handed to ParseEMB
BitsSamples ==
    {[i \in 1..EMBBits |-> IF i <= 8 THEN (h \div (2 ^ (i - 1))) % 2 ELSE t] :
        h \in 0..255, t \in {0, 1}}
    \cup
    {[i \in 1..n |-> t] : n \in (0..MaxBitsLen) \ {EMBBits}, t \in {0, 1}}

-----------------------------------------------------------------------------
(* Initial states *)

FrameIdle ==
    /\ frame = None /\ wire = <<>> /\ raw = <<>>
    /\ parsed = None /\ acc = None /\ fpc = "off"

EMBIdle == bits = <<>> /\ verdict = FALSE /\ emb = None /\ epc = "off"

CRCIdle == crc0 = 0 /\ crc = 0 /\ cbyte = 0 /\ cbits = 0 /\ cpc = "off"

LinkIdle ==
    /\ status = authNone /\ secret = <<>>
    /\ previous = authDone /\ p = None /\ lpc = "off"
    /\ sent = <<>> /\ outstanding = 0 /\ kasent = 0
    /\ socket = <<>> /\ queue = <<>> /\ injected = 0
    /\ received = <<>> /\ handled = <<>>
    /\ cur = <<>> /\ dpc = "off" /\ delivered = <<>>
    /\ stream = FALSE /\ transport = "reliable" /\ script = None /\ seen = 0

\* New() and the start of Run(): both goroutines started, nothing received
LinkStart ==
    /\ status = authNone /\ secret = <<>>
    /\ previous = authDone /\ p = None /\ lpc = "loop"
    /\ sent = <<>> /\ outstanding = 0 /\ kasent = 0
    /\ socket = <<>> /\ queue = <<>> /\ injected = 0
    /\ received = <<>> /\ handled = <<>>
    /\ cur = <<>> /\ dpc = "recv" /\ delivered = <<>>
    /\ seen = 0

\* a link whose inbound datagrams are arbitrary
Init ==
    /\ LinkStart /\ stream \in BOOLEAN /\ script = None /\ transport = "lossy"
    /\ FrameIdle /\ EMBIdle /\ CRCIdle

\* a link whose inbound datagrams are arbitrary, with a stream handler set
LoggedInit ==
    /\ LinkStart /\ stream = TRUE /\ script = None /\ transport = "lossy"
    /\ FrameIdle /\ EMBIdle /\ CRCIdle

\* a link facing a scripted master over a working transport
ScenarioInit ==
    /\ LinkStart /\ stream = TRUE /\ script \in {Some(s) : s \in Scripts}
    /\ transport = "reliable"
    /\ FrameIdle /\ EMBIdle /\ CRCIdle

FrameInit ==
    /\ frame \in FrameSamples /\ wire = <<>> /\ raw = <<>>
    /\ parsed = None /\ acc = None /\ fpc = "start"
    /\ LinkIdle /\ EMBIdle /\ CRCIdle

EMBInit ==
    /\ bits \in BitsSamples /\ verdict \in BOOLEAN /\ emb = None /\ epc = "start"
    /\ LinkIdle /\ FrameIdle /\ CRCIdle

\* 9-bit registers: none, each single bit, and mixed patterns with bit 8 set
\* and clear
CrcSamples ==
    {0} \cup {2 ^ k : k \in 0..8}
        \cup {3, 89, 165, 170, 255, 257, 341, 345, 384, 426, 447, 500, 510, 511}

\* crc9 about to be called on a 9-bit register, any byte, any bits in 1..8
CRCInit ==
    /\ crc0 \in CrcSamples /\ crc = crc0
    /\ cbyte \in 0..255 /\ cbits \in 1..8 /\ cpc = "start"
    /\ LinkIdle /\ FrameIdle /\ EMBIdle

-----------------------------------------------------------------------------
(* Codec, EMB and CRC harness *)

\* frame.Bytes()
EncodeFrame ==
    /\ fpc = "start"
    /\ wire' = Bytes(frame)
    /\ fpc' = "encoded"
    /\ UNCHANGED <<frame, raw, parsed, acc, embVars, crcVars, linkVars>>

\* ParseFrame(frame.Bytes())
DecodeWire ==
    /\ fpc = "encoded"
    /\ raw' = wire
    /\ parsed' = Some(ParseFrame(wire))
    /\ fpc' = "decoded"
    /\ UNCHANGED <<frame, wire, acc, embVars, crcVars, linkVars>>

\* ParseFrame(data) on a buffer of any length
ParseRaw ==
    /\ fpc = "start"
    /\ \E r \in RawSamples :
        /\ raw' = r
        /\ parsed' = Some(ParseFrame(r))
    /\ fpc' = "parsed"
    /\ UNCHANGED <<frame, wire, acc, embVars, crcVars, linkVars>>

\* the four accessors of the flags byte
ReadFlags ==
    /\ fpc = "start"
    /\ acc' = Some([Slot |-> Slot(frame), CallType |-> CallType(frame),
               FrameType |-> FrameType(frame), DataType |-> DataType(frame)])
    /\ fpc' = "flags"
    /\ UNCHANGED <<frame, wire, raw, parsed, embVars, crcVars, linkVars>>

FrameNext == EncodeFrame \/ DecodeWire \/ ParseRaw \/ ReadFlags

FrameSpec == FrameInit /\ [][FrameNext]_vars

\* ParseEMB(bits)
CallParseEMB ==
    /\ epc = "start"
    /\ emb' = Some(ParseEMB(bits, verdict))
    /\ epc' = "done"
    /\ UNCHANGED <<bits, verdict, frameVars, crcVars, linkVars>>

EMBNext == CallParseEMB

EMBSpec == EMBInit /\ [][EMBNext]_vars

\* crc9(&crc, b, bits)
CallCrc9 ==
    /\ cpc = "start"
    /\ crc' = crc9(crc, cbyte, cbits)
    /\ cpc' = "done"
    /\ UNCHANGED <<crc0, cbyte, cbits, frameVars, embVars, linkVars>>

CRCNext == CallCrc9

CRCSpec == CRCInit /\ [][CRCNext]_vars

-----------------------------------------------------------------------------
(* Link session: Send *)

\* func (l *Link) Send: the datagrams on the wire after sending pkt; nothing
\* is sent when WriteToUDP fails
Send(out, pkt, ok) == IF ok THEN Append(out, pkt) ELSE out

\* whether WriteToUDP succeeds (TRUE) or returns an error (FALSE)
WriteOutcomes == IF transport = "reliable" THEN {TRUE} ELSE BOOLEAN

-----------------------------------------------------------------------------
(* Link session: login() *)

\* for l.master.status != authFail
LoginLoop ==
    /\ lpc = "loop"
    /\ p' = None
    /\ lpc' = IF status # authFail THEN "if" ELSE "done"
    /\ UNCHANGED <<previous, sent, outstanding, kasent>>
    /\ UNCHANGED <<frameVars, embVars, crcVars, recvVars, parseVars, envVars>>

\* login(), wait branch, sending the pending request again on every interval
LoginIfResend ==
    /\ lpc = "if"
    /\ IF status # previous
       THEN lpc' = "switch" /\ sent' = sent
       ELSE /\ lpc' = "loop"
            /\ sent' = IF status = authNone THEN Append(sent, LoginPacket)
                       ELSE IF status = authBegin THEN Append(sent, KeyPacket(secret))
                       ELSE sent
    /\ UNCHANGED <<previous, p, outstanding, kasent>>
    /\ UNCHANGED <<frameVars, embVars, crcVars, recvVars, parseVars, envVars>>

\* if l.master.status != previous ... else log and time.Sleep(time.Second)
LoginIf ==
    /\ lpc = "if"
    /\ lpc' = IF status # previous THEN "switch" ELSE "loop"
    /\ UNCHANGED <<previous, p, sent, outstanding, kasent>>
    /\ UNCHANGED <<frameVars, embVars, crcVars, recvVars, parseVars, envVars>>

\* switch l.master.status
LoginSwitch ==
    /\ lpc = "switch"
    /\ CASE status = authNone  -> p' = Some(LoginPacket) /\ lpc' = "send"
         [] status = authBegin -> p' = Some(KeyPacket(secret)) /\ lpc' = "send"
         [] status = authDone  -> p' = p /\ lpc' = "config"
         [] OTHER              -> p' = p /\ lpc' = "done"
    /\ UNCHANGED <<previous, sent, outstanding, kasent>>
    /\ UNCHANGED <<frameVars, embVars, crcVars, recvVars, parseVars, envVars>>

\* if p != nil { l.Send(l.master.addr, p) }
LoginSend ==
    /\ lpc = "send"
    /\ \E ok \in WriteOutcomes :
        sent' = IF p # None THEN Send(sent, p[1], ok) ELSE sent
    /\ lpc' = "assign"
    /\ UNCHANGED <<previous, p, outstanding, kasent>>
    /\ UNCHANGED <<frameVars, embVars, crcVars, recvVars, parseVars, envVars>>

\* previous = l.master.status
LoginAssign ==
    /\ lpc = "assign"
    /\ previous' = status
    /\ lpc' = "loop"
    /\ UNCHANGED <<p, sent, outstanding, kasent>>
    /\ UNCHANGED <<frameVars, embVars, crcVars, recvVars, parseVars, envVars>>

\* case authDone, with l.keepAlive() started whether or not the configuration
\* was sent
LoginConfigAlways ==
    /\ lpc = "config"
    /\ \E ok \in WriteOutcomes : sent' = Send(sent, ConfigPacket, ok)
    /\ lpc' = "ka_outstanding"
    /\ UNCHANGED <<previous, p, outstanding, kasent>>
    /\ UNCHANGED <<frameVars, embVars, crcVars, recvVars, parseVars, envVars>>

\* case authDone: send the configuration, then l.keepAlive(); return
LoginConfig ==
    /\ lpc = "config"
    /\ \E ok \in WriteOutcomes :
        /\ sent' = Send(sent, ConfigPacket, ok)
        /\ lpc' = IF ok THEN "ka_outstanding" ELSE "done"
    /\ UNCHANGED <<previous, p, outstanding, kasent>>
    /\ UNCHANGED <<frameVars, embVars, crcVars, recvVars, parseVars, envVars>>

\* keepAlive(): atomic.AddUint32(&l.master.keepalive.outstanding, 1)
KeepAliveOutstanding ==
    /\ lpc = "ka_outstanding"
    /\ kasent < MaxPings
    /\ outstanding' = outstanding + 1
    /\ lpc' = "ka_sent"
    /\ UNCHANGED <<previous, p, sent, kasent>>
    /\ UNCHANGED <<frameVars, embVars, crcVars, recvVars, parseVars, envVars>>

\* keepAlive(): atomic.AddUint64(&l.master.keepalive.sent, 1)
KeepAliveSent ==
    /\ lpc = "ka_sent"
    /\ kasent' = kasent + 1
    /\ lpc' = "ka_ping"
    /\ UNCHANGED <<previous, p, sent, outstanding>>
    /\ UNCHANGED <<frameVars, embVars, crcVars, recvVars, parseVars, envVars>>

\* keepAlive() going on after a ping that could not be sent
KeepAlivePingNoReturn ==
    /\ lpc = "ka_ping"
    /\ \E ok \in WriteOutcomes : sent' = Send(sent, PingPacket, ok)
    /\ lpc' = "ka_outstanding"
    /\ UNCHANGED <<previous, p, outstanding, kasent>>
    /\ UNCHANGED <<frameVars, embVars, crcVars, recvVars, parseVars, envVars>>

\* keepAlive(): send the ping, return on failure, else time.Sleep(time.Minute)
KeepAlivePing ==
    /\ lpc = "ka_ping"
    /\ \E ok \in WriteOutcomes :
        /\ sent' = Send(sent, PingPacket, ok)
        /\ lpc' = IF ok THEN "ka_outstanding" ELSE "done"
    /\ UNCHANGED <<previous, p, outstanding, kasent>>
    /\ UNCHANGED <<frameVars, embVars, crcVars, recvVars, parseVars, envVars>>

Login ==
    \/ LoginLoop \/ LoginIf \/ LoginSwitch \/ LoginSend \/ LoginAssign
    \/ LoginConfig \/ KeepAliveOutstanding \/ KeepAliveSent \/ KeepAlivePing

-----------------------------------------------------------------------------
(* Link session: Run() and parse() *)

\* Run(): ReadFromUDP returns the next datagram, then queue <- packet blocks
\* until parse() takes it
ReceiveStep ==
    /\ queue = <<>>
    /\ socket # <<>>
    /\ queue' = <<Head(socket)>>
    /\ socket' = Tail(socket)
    /\ UNCHANGED <<injected, frameVars, embVars, crcVars, loginVars, parseVars, envVars>>

\* the receive loop, history not recorded
Receive == ReceiveStep /\ received' = received

\* the receive loop, recording what it read
ReceiveLogged == ReceiveStep /\ received' = Append(received, Head(socket))

\* parse(): case p := <-queue, with the packet left in the channel
DispatchRecvKeeps ==
    /\ dpc = "recv"
    /\ queue # <<>>
    /\ cur' = queue
    /\ queue' = queue
    /\ dpc' = "parse"
    /\ UNCHANGED <<status, secret, delivered, handled, socket, injected, received>>
    /\ UNCHANGED <<frameVars, embVars, crcVars, loginVars, envVars>>

\* parse(): case p := <-queue
DispatchRecv ==
    /\ dpc = "recv"
    /\ queue # <<>>
    /\ cur' = queue
    /\ queue' = <<>>
    /\ dpc' = "parse"
    /\ UNCHANGED <<status, secret, delivered, handled, socket, injected, received>>
    /\ UNCHANGED <<frameVars, embVars, crcVars, loginVars, envVars>>

\* parse(): the body of the loop for the packet received
DispatchParseStep ==
    /\ dpc = "parse"
    /\ IF Len(cur[1]) < 4
       THEN /\ dpc' = "recv"
            /\ UNCHANGED <<status, secret, delivered>>
       ELSE LET o == ParsePacket(status, cur[1], secret, stream)
            IN  /\ status' = o.status
                /\ secret' = o.secret
                /\ delivered' = delivered \o o.frame
                /\ dpc' = IF o.exit THEN "exited" ELSE "recv"
    /\ cur' = <<>>
    /\ UNCHANGED <<frameVars, embVars, crcVars, loginVars, recvVars, envVars>>

\* the loop body, history not recorded
DispatchParse == DispatchParseStep /\ handled' = handled

\* the loop body, recording what it processed
DispatchParseLogged == DispatchParseStep /\ handled' = Append(handled, cur[1])

Dispatch == DispatchRecv \/ DispatchParse

DispatchLogged == DispatchRecv \/ DispatchParseLogged

-----------------------------------------------------------------------------
(* Environment *)

\* any datagram arrives at the socket
Inject ==
    /\ injected < MaxInbound
    /\ \E d \in Datagrams : socket' = Append(socket, d)
    /\ injected' = injected + 1
    /\ UNCHANGED <<queue, received, frameVars, embVars, crcVars, loginVars, parseVars, envVars>>

\* the scripted master handles the next datagram the repeater sent
Master ==
    /\ seen < Len(sent)
    /\ seen' = seen + 1
    /\ LET pkt == sent[seen + 1]
       IN  socket' = socket \o
               (CASE pkt.sig = RepeaterLogin   -> <<script[1].login>>
                  [] pkt.sig = RepeaterKey     -> <<script[1].key>>
                  [] pkt.sig = ConfigSignature -> script[1].stream
                  [] OTHER                     -> <<>>)
    /\ UNCHANGED <<queue, received, injected, stream, transport, script>>
    /\ UNCHANGED <<frameVars, embVars, crcVars, loginVars, parseVars>>

-----------------------------------------------------------------------------
(* Specifications *)

Next == Login \/ Receive \/ Dispatch \/ Inject

\* the link with arbitrary inbound datagrams and a transport whose writes may fail
Spec == Init /\ [][Next]_vars

LoggedNext == Login \/ ReceiveLogged \/ DispatchLogged \/ Inject

\* the link of Spec with the history of Run() and parse() recorded
LoggedSpec == LoggedInit /\ [][LoggedNext]_vars

ScenarioNext == Login \/ Receive \/ Dispatch \/ Master

\* the link facing a scripted master; every goroutine keeps being scheduled
ScenarioSpec ==
    /\ ScenarioInit /\ [][ScenarioNext]_vars
    /\ WF_vars(Login) /\ WF_vars(Receive) /\ WF_vars(Dispatch) /\ WF_vars(Master)

-----------------------------------------------------------------------------
(* Properties of the frame codec *)

\* C1: for every Frame whose SrcID and DstID fit in 24 bits,
\* ParseFrame(f.Bytes()) succeeds and returns a Frame equal to f in every
\* field, including all 33 payload bytes.
FrameRoundTrip ==
    (fpc = "decoded" /\ frame.SrcID[1] = 0 /\ frame.DstID[1] = 0)
        => /\ parsed[1].err = Nil
           /\ parsed[1].frame = Some(frame)

\* C2: f.Bytes() is exactly 53 bytes long and holds the signature at bytes
\* 0-3, the sequence at 4, the low 24 bits of SrcID big-endian at 5-7, the low
\* 24 bits of DstID big-endian at 8-10, RepeaterID big-endian at 11-14, Flags
\* at 15, StreamID big-endian at 16-19, and byte 20+i equals DMR[i] for every
\* i in 0..32.
EncodeLayout ==
    fpc = "encoded"
        => /\ Len(wire) = 53
           /\ Slice(wire, 0, 4) = frame.Signature
           /\ wire[4 + 1] = frame.Sequence
           /\ Slice(wire, 5, 8) = SubSeq(frame.SrcID, 2, 4)
           /\ Slice(wire, 8, 11) = SubSeq(frame.DstID, 2, 4)
           /\ Slice(wire, 11, 15) = frame.RepeaterID
           /\ wire[15 + 1] = frame.Flags
           /\ Slice(wire, 16, 20) = frame.StreamID
           /\ \A i \in 0..32 : wire[20 + i + 1] = frame.DMR[i + 1]

\* C3: ParseFrame returns an error and no Frame for every input whose length
\* is not exactly 53 bytes, and a Frame with no error for every input of
\* exactly 53 bytes.
ParseFrameLength ==
    parsed # None
        => IF Len(raw) = 53
           THEN parsed[1].err = Nil /\ parsed[1].frame # None
           ELSE parsed[1].err # Nil /\ parsed[1].frame = None

\* a 54-byte buffer was handed to ParseFrame and refused
ParseFrameLengthWitness ==
    fpc = "parsed" /\ Len(raw) = 54 /\ parsed[1].err # Nil

\* bit i of the byte x
BitOf(x, i) == (x \div (2 ^ i)) % 2

\* C4: for every value of the Flags byte, Slot() equals (bit 0)+1 and is 1 or
\* 2, CallType() equals bit 1, FrameType() equals the 2-bit value of bits 2-3
\* and DataType() equals the 4-bit value of bits 4-7.
FlagAccessors ==
    acc # None
        => LET fl == frame.Flags
           IN  /\ acc[1].Slot = BitOf(fl, 0) + 1
               /\ acc[1].Slot \in {1, 2}
               /\ acc[1].CallType = BitOf(fl, 1)
               /\ acc[1].FrameType = BitOf(fl, 2) + 2 * BitOf(fl, 3)
               /\ acc[1].DataType = BitOf(fl, 4) + 2 * BitOf(fl, 5)
                                    + 4 * BitOf(fl, 6) + 8 * BitOf(fl, 7)

\* the accessors were read on the flags byte 0b00010011 of a unit call in
\* slot 2
FlagAccessorsWitness ==
    /\ fpc = "flags" /\ frame.Flags = 19
    /\ acc[1].Slot = 2 /\ acc[1].CallType = 1
    /\ acc[1].FrameType = 0 /\ acc[1].DataType = 1

-----------------------------------------------------------------------------
(* Properties of the EMB parser *)

\* C10: ParseEMB returns either an EMB or an error, never both and never
\* neither; an error if the length is not 16, else an error if the
\* quadratic-residue check rejects, else an error if bit 4 is nonzero; an EMB
\* only when the length is 16, the check accepts and bit 4 is 0, and then
\* ColorCode is bits 0..3 and LCSS is bits 5..6, most significant first.
EMBTotalOrdered ==
    epc = "done"
        => LET r == emb[1]
           IN  /\ (r.emb = None) # (r.err = Nil)
               /\ Len(bits) # 16 => r.err = "dmr/emb: expected 16 bits"
               /\ (Len(bits) = 16 /\ ~verdict) => r.err = "dmr/emb: checksum error"
               /\ (Len(bits) = 16 /\ verdict /\ bits[4 + 1] # 0)
                      => r.err = "dmr/emb: pi is not 0"
               /\ r.emb # None
                      => /\ Len(bits) = 16 /\ verdict /\ bits[4 + 1] = 0
                         /\ r.emb[1].ColorCode =
                                8 * bits[1] + 4 * bits[2] + 2 * bits[3] + bits[4]
                         /\ r.emb[1].LCSS = 2 * bits[6] + bits[7]

\* an accepted codeword with PI = 0 was parsed into color code 10, LCSS 1
EMBTotalOrderedWitness ==
    /\ epc = "done" /\ Len(bits) = 16 /\ verdict /\ bits[5] = 0
    /\ emb[1].emb = Some([ColorCode |-> 10, LCSS |-> 1])

-----------------------------------------------------------------------------
(* Properties of the link session *)

\* how many configuration records are on the wire
ConfigCount == Cardinality({i \in 1..Len(sent) : sent[i] = ConfigPacket})

\* a ping is on the wire after the configuration record
PingAfterConfig ==
    \E i, j \in 1..Len(sent) :
        i < j /\ sent[i] = ConfigPacket /\ sent[j] = PingPacket

\* the master answers the login and the key exchange with an ACK
AckScript == script[1].login = AckSalt /\ script[1].key = Ack

\* the master answers the login with a NAK
NakScript == script[1].login = Nak

\* C5: if the master answers the login request with an ACK reply followed by
\* a salt and the key-exchange request with an ACK reply, then with fair
\* scheduling and no send failures the session eventually is Authenticated,
\* has transmitted the configuration record exactly once and then a
\* keepalive ping.
Handshake ==
    AckScript =>
        /\ <>(status = authDone /\ ConfigCount = 1 /\ PingAfterConfig)
        /\ [](ConfigCount <= 1)

\* C6: if the master answers the login request with a NAK reply, the session
\* reaches Failed and from then on sends no further packet of any kind.
Rejection ==
    /\ <>(NakScript => status = authFail)
    /\ [][(NakScript /\ status = authFail) => sent' = sent]_vars

\* the NAK of the master was processed after the login request went out, and
\* the login goroutine has ended
RejectionWitness ==
    /\ NakScript /\ status = authFail
    /\ sent = <<LoginPacket>> /\ seen = 1 /\ lpc = "done"

\* C7: when the session is NotAuthenticated and processes a reply of at least
\* 4 but fewer than 14 bytes that does not carry the data-frame signature,
\* the auth status becomes Failed.
MalformedLoginReply ==
    [][(/\ dpc = "parse" /\ dpc' # "parse"
        /\ status = authNone
        /\ Len(cur[1]) >= 4 /\ Len(cur[1]) < 14
        /\ ~HasPrefix(cur[1], DMRData))
            => status' = authFail]_vars

\* C8: the auth status changes only along NotAuthenticated->Authenticating,
\* NotAuthenticated->Failed, Authenticating->Authenticated and
\* Authenticating->Failed; once Failed or Authenticated it never changes.
AuthTransitions ==
    [][\/ status' = status
       \/ <<status, status'>> \in
            {<<authNone, authBegin>>, <<authNone, authFail>>,
             <<authBegin, authDone>>, <<authBegin, authFail>>}]_vars

\* the session went through both ACKs, then processed a further datagram (a
\* data frame, handed to the stream handler) and is still Authenticated
AuthTransitionsWitness ==
    /\ status = authDone /\ delivered # <<>>
    /\ injected >= 3 /\ socket = <<>> /\ queue = <<>> /\ dpc = "recv"

\* C9: while the session is Authenticated, a datagram with the data-frame
\* signature and a length other than 53 bytes is dropped and the session
\* continues (the status stays Authenticated and the dispatch goroutine goes
\* back to receiving), and a well-formed 53-byte data frame read from the
\* socket while Authenticated is eventually delivered to the stream handler.
Recoverability ==
    /\ [][(/\ dpc = "parse" /\ dpc' # "parse"
           /\ status = authDone /\ stream
           /\ HasPrefix(cur[1], DMRData) /\ Len(cur[1]) # 53)
               => (status' = authDone /\ dpc' = "recv" /\ delivered' = delivered)]_vars
    /\ (status = authDone /\ queue = <<GoodFrame>>) ~> (delivered # <<>>)

-----------------------------------------------------------------------------
(* Properties of login() and keepAlive() *)

\* how many times pkt is on the wire
Count(pkt) == Cardinality({i \in 1..Len(sent) : sent[i] = pkt})

\* the request login() sends for the status st
Pending(st) == IF st = authNone THEN LoginPacket ELSE KeyPacket(secret)

\* C11 as claimed: while the session is NotAuthenticated or Authenticating
\* and no state-changing reply has arrived, the login task re-sends the
\* pending login (or key-exchange) request on each wait interval.
RetryResends ==
    [][(/\ lpc = "if" /\ lpc' = "loop"
        /\ status = previous /\ status \in {authNone, authBegin})
            => sent' = Append(sent, Pending(status))]_vars

\* C11 as amended: the login task sends the login request and the
\* key-exchange request at most once each; on each wait interval it only logs
\* and sleeps and sends nothing.
RetryOnce ==
    /\ [](Count(LoginPacket) <= 1 /\ Count(KeyPacket(secret)) <= 1)
    /\ [][(lpc = "if" /\ lpc' = "loop") => sent' = sent]_vars

\* the login request is on the wire, no reply has changed the status, and
\* login() has been through its wait branch
RetryOnceWitness ==
    /\ lpc = "loop" /\ p = None
    /\ status = authNone /\ previous = authNone
    /\ sent = <<LoginPacket>>

\* C12: if sending the login request, the key-exchange request or the
\* configuration record fails, the auth status becomes Failed and the login
\* task stops.
SendFailureFatal ==
    [][(lpc \in {"send", "config"} /\ lpc' # lpc /\ sent' = sent)
            => (status' = authFail /\ lpc' = "done")]_vars

\* how many pings are on the wire
PingCount == Count(PingPacket)

\* C13: each keepalive cycle increments the outstanding-ping counter and the
\* total-sent counter by exactly one each and then transmits one ping (ping
\* signature followed by the local hex ID); the first ping send that fails
\* terminates the loop, after which no further ping is sent and neither
\* counter changes again.
KeepaliveLoop ==
    /\ [](lpc = "ka_outstanding" => (outstanding = kasent /\ PingCount = kasent))
    /\ [](lpc = "ka_ping" => (outstanding = kasent /\ PingCount = kasent - 1))
    /\ [][(lpc = "ka_ping" /\ lpc' # "ka_ping")
            => \/ /\ lpc' = "ka_outstanding"
                  /\ sent' = Append(sent, [sig |-> MasterPing, id |-> LocalID,
                                           digestOf |-> <<>>])
               \/ lpc' = "done" /\ sent' = sent]_vars
    /\ [][lpc = "done"
            => /\ lpc' = "done" /\ sent' = sent
               /\ outstanding' = outstanding /\ kasent' = kasent]_vars

\* the second ping could not be sent and keepAlive() has returned
KeepaliveLoopWitness ==
    /\ lpc = "done" /\ outstanding = 2 /\ kasent = 2 /\ PingCount = 1

-----------------------------------------------------------------------------
(* Properties of Run() and parse() *)

\* C15: the receive loop is always able to hand over the datagram it holds
\* and go back to reading the socket, whatever the dispatch goroutine has
\* processed before (a data frame before authentication and a short datagram
\* included): it never blocks forever on the queue.
ReceptionNotStalled == queue # <<>> => dpc # "exited"

\* the packet the dispatch goroutine holds or is about to take carries the
\* data-frame signature
DataPending ==
    \/ dpc = "recv" /\ queue # <<>> /\ HasPrefix(queue[1], DMRData)
    \/ dpc = "parse" /\ cur # <<>> /\ HasPrefix(cur[1], DMRData)

\* C16: the stream handler is invoked only for a datagram processed while the
\* status is authDone, whose first 4 bytes are the data-frame signature and
\* whose length is exactly 53 bytes; a data-signature datagram that the
\* dispatch goroutine gets while the status is authNone, authBegin or authFail
\* is never delivered and never changes the status.
StreamGating ==
    /\ [][delivered' # delivered
            => /\ dpc = "parse" /\ status = authDone /\ status' = authDone
               /\ Slice(cur[1], 0, 4) = DMRData
               /\ Len(cur[1]) = 53
               /\ delivered' = Append(delivered, ParseFrame(cur[1]).frame[1])]_vars
    /\ [][(DataPending /\ status # authDone)
            => (delivered' = delivered /\ status' = status)]_vars

\* a data frame was processed while the status was authBegin
StreamGatingWitness ==
    /\ dpc = "exited" /\ status = authBegin
    /\ delivered = <<>> /\ cur = <<>>

-----------------------------------------------------------------------------
(* Properties of login() running next to parse() *)

\* C18: login() never records a status as handled without having acted on
\* it: whenever previous is authBegin the key-exchange packet has been sent,
\* and previous is never authDone after parse() set authDone unless the
\* configuration record has been sent.
RaceFree ==
    /\ previous = authBegin => Count(KeyPacket(secret)) >= 1
    /\ (previous = authDone /\ status = authDone) => Count(ConfigPacket) >= 1

\* C19: the login request is the first packet sent and is sent at most once;
\* a key-exchange packet is sent only after a login ACK has been processed
\* (the status has left authNone and the digest is of the secret of that ACK)
\* and at most once; the configuration record is sent only after the status
\* is authDone and at most once; no ping is sent before the configuration
\* record has been sent.
OutboundOrdering ==
    /\ sent # <<>> => sent[1] = LoginPacket
    /\ Count(LoginPacket) <= 1
    /\ \A i \in 1..Len(sent) :
        /\ sent[i].sig = RepeaterKey
            => (sent[i] = KeyPacket(secret) /\ status # authNone)
        /\ sent[i].sig = ConfigSignature => status = authDone
        /\ sent[i].sig = MasterPing
            => \E j \in 1..(i - 1) : sent[j] = ConfigPacket
    /\ Count(KeyPacket(secret)) <= 1
    /\ Count(ConfigPacket) <= 1

\* keepAlive() is running
KeepAliveActive == lpc \in {"ka_outstanding", "ka_sent", "ka_ping"}

\* C20: keepAlive() runs only in the login goroutine after the one
\* configuration record; both keepalive counters are zero until the status is
\* authDone and the configuration record has been sent; neither counter ever
\* decreases and no step of Run() or parse() changes them; outstanding minus
\* sent is always 0 or 1; the number of pings transmitted never exceeds the
\* sent counter and is at most one less than it.
KeepaliveCounters ==
    /\ [](KeepAliveActive => (status = authDone /\ Count(ConfigPacket) = 1))
    /\ []((status # authDone \/ Count(ConfigPacket) = 0)
            => (outstanding = 0 /\ kasent = 0))
    /\ [](outstanding - kasent \in {0, 1})
    /\ [](PingCount <= kasent /\ kasent - PingCount <= 1)
    /\ [][outstanding' >= outstanding /\ kasent' >= kasent]_vars
    /\ [][(Receive \/ Dispatch \/ Inject)
            => (outstanding' = outstanding /\ kasent' = kasent)]_vars

\* the second cycle has raised outstanding but not yet the sent counter
KeepaliveCountersWitness ==
    /\ lpc = "ka_sent" /\ outstanding = 2 /\ kasent = 1 /\ PingCount = 1

-----------------------------------------------------------------------------
(* Properties of the channel between Run() and parse() *)

\* a is b with some of its elements left out
RECURSIVE IsSubseq(_, _)
IsSubseq(a, b) ==
    IF a = <<>> THEN TRUE
    ELSE IF b = <<>> THEN FALSE
    ELSE IF Head(a) = Head(b) THEN IsSubseq(Tail(a), Tail(b))
    ELSE IsSubseq(a, Tail(b))

\* the frames of the datagrams of ds that ParseFrame accepts, in order
RECURSIVE FramesOf(_)
FramesOf(ds) ==
    IF ds = <<>> THEN <<>>
    ELSE ParseFrame(Head(ds)).frame \o FramesOf(Tail(ds))

\* C14: parse() processes the datagrams in exactly the order Run() read them
\* from the socket, and the frames passed to the stream handler are a
\* subsequence, in receive order, of the datagrams received, none duplicated
\* or reordered.
FifoDispatch ==
    /\ handled \o cur \o queue = received
    /\ IsSubseq(delivered, FramesOf(handled))

\* three datagrams were read and processed and the last one was a frame
\* passed to the stream handler
FifoDispatchWitness ==
    /\ Len(received) = 3 /\ handled = received
    /\ delivered = ParseFrame(received[3]).frame /\ delivered # <<>>

-----------------------------------------------------------------------------
(* Properties of crc9 *)

\* one step of the register: shift left, inject bit, and XOR the generator
\* when the vacated bit 8 was set
Crc9Step(r, bit) ==
    LET s == ((2 * r) % 512) + bit
    IN  IF (r \div 256) % 2 = 1 THEN BitXor(s, 89) ELSE s

\* the register after the bits of bs were fed one after another
RECURSIVE Crc9Feed(_, _)
Crc9Feed(r, bs) ==
    IF bs = <<>> THEN r ELSE Crc9Feed(Crc9Step(r, Head(bs)), Tail(bs))

\* the n most significant bits of the byte bb, most significant first
TopBits(bb, n) == [k \in 1..n |-> (bb \div (2 ^ (8 - k))) % 2]

\* the n least significant bits of the byte bb, most significant first
LowBits(bb, n) == [k \in 1..n |-> (bb \div (2 ^ (n - k))) % 2]

\* n zero bits
Zeros(n) == [k \in 1..n |-> 0]

\* C17 as claimed: crc9(crc, b, bits) feeds only the top bits most
\* significant bits of b into the register (the result does not depend on the
\* remaining low 8-bits bits of b), shifting left, injecting each bit and
\* XOR-ing 0x059 when the vacated bit 8 was set, and the register stays within
\* 0..0x1FF.
Crc9FeedsTopBits ==
    cpc = "done"
        => /\ crc = Crc9Feed(crc0, TopBits(cbyte, cbits))
           /\ crc = crc9(crc0, cbyte - (cbyte % (2 ^ (8 - cbits))), cbits)
           /\ crc \in 0..511

\* C17 as amended: crc9(crc, b, bits) feeds the bits least significant bits
\* of b into the register, most significant of them first, followed by 8-bits
\* zero bits (eight steps in all), each step shifting left, injecting the bit
\* and XOR-ing 0x059 when the vacated bit 8 was set; the result does not depend
\* on the top 8-bits bits of b, and the register stays within 0..0x1FF.
Crc9FeedsLowBits ==
    cpc = "done"
        => /\ crc = Crc9Feed(crc0, LowBits(cbyte, cbits) \o Zeros(8 - cbits))
           /\ crc = crc9(crc0, cbyte % (2 ^ cbits), cbits)
           /\ crc \in 0..511

\* crc9 was called with bits = 3 on a byte whose top five and low three bits
\* are both set, and bit 8 of the register was set before the call
Crc9FeedsLowBitsWitness ==
    /\ cpc = "done" /\ cbits = 3 /\ cbyte = 165 /\ crc0 = 511
    /\ crc = Crc9Feed(511, <<1, 0, 1, 0, 0, 0, 0, 0>>)

=============================================================================
